---- MODULE Spec2Model ----
(***************************************************************************)
(* A model of src/lib/config/config.ts: the Config entity, its path        *)
(* resolution (create / resolveRootFolder) and its operations on the JSON  *)
(* file at the resolved path (access, read, readJSON, write, exists, stat, *)
(* unlink, getContents, setContents).                                      *)
(*                                                                         *)
(* Every `await` of the source is a step boundary: the action that calls   *)
(* an operation runs its synchronous prefix, and one action per awaited    *)
(* I/O applies that I/O and runs the code up to the next await.            *)
(***************************************************************************)
EXTENDS Integers, Sequences, FiniteSets, TLC

VARIABLES pc, options, path, created, contents, call, result, consulted, fs, pathWasEmpty

vars == <<pc, options, path, created, contents, call, result, consulted, fs, pathWasEmpty>>

(***************************************************************************)
(* Bounds of the model.                                                    *)
(***************************************************************************)
\* numbers that occur in JSON values are 0..MaxNum
MaxNum == 1

(***************************************************************************)
(* JavaScript values.  A value is a record of one shape, [t, b, n, s, k,   *)
(* a]: t is the type tag, b/n/s the payload of a boolean/number/string, k  *)
(* the keys of an object and a the elements of an array or the values of   *)
(* an object.  The elements are leaves, records [t, b, n, s].              *)
(***************************************************************************)
Leaf(t, b, n, s) == [t |-> t, b |-> b, n |-> n, s |-> s]

LNull == Leaf("null", FALSE, 0, "")
LBool(b) == Leaf("boolean", b, 0, "")
LNum(n) == Leaf("number", FALSE, n, "")
LStr(s) == Leaf("string", FALSE, 0, s)

Val(l, k, a) == [t |-> l.t, b |-> l.b, n |-> l.n, s |-> l.s, k |-> k, a |-> a]

Undefined == Val(Leaf("undefined", FALSE, 0, ""), <<>>, <<>>)
JNull == Val(LNull, <<>>, <<>>)
JBool(b) == Val(LBool(b), <<>>, <<>>)
JNum(n) == Val(LNum(n), <<>>, <<>>)
JStr(s) == Val(LStr(s), <<>>, <<>>)
JArr(a) == Val(Leaf("array", FALSE, 0, ""), <<>>, a)
JObj(k, a) == Val(Leaf("object", FALSE, 0, ""), k, a)

EmptyObject == JObj(<<>>, <<>>)

Nums == 0..MaxNum
Strs == {"", "a"}
Keys == {"a"}

Leaves == {LNull} \cup {LBool(b) : b \in BOOLEAN} \cup {LNum(n) : n \in Nums}
             \cup {LStr(s) : s \in Strs}

\* what arrays and objects hold in this model
Elems == {LNum(n) : n \in Nums}

Scalars == {Val(l, <<>>, <<>>) : l \in Leaves}
Arrays == {JArr(<<>>)} \cup {JArr(<<e>>) : e \in Elems}
Objects == {EmptyObject} \cup {JObj(<<k>>, <<e>>) : k \in Keys, e \in Elems}

\* the JSON-representable values of the model
JsonValues == Scalars \cup Arrays \cup Objects

\* lodash isBoolean / isNil, and JavaScript truthiness (the || and ! of the code)
IsBoolean(v) == v.t = "boolean"
IsNil(v) == v.t \in {"undefined", "null"}
Truthy(v) ==
    CASE v.t = "boolean" -> v.b
      [] v.t = "number" -> v.n # 0
      [] v.t = "string" -> v.s # ""
      [] v.t \in {"undefined", "null"} -> FALSE
      [] OTHER -> TRUE

\* a parameter default (read's "= false", readJSON's "= true") applies to undefined only
DefaultParam(arg, dflt) == IF arg.t = "undefined" THEN dflt ELSE arg

(***************************************************************************)
(* JSON text.  A text is a sequence of tokens; NL, IND and SP are the      *)
(* white space that JSON.stringify(value, null, 4) puts between them.      *)
(***************************************************************************)
NL == "\n"
IND == "    "
SP == " "

Digit == <<"0", "1", "2", "3", "4", "5", "6", "7", "8", "9">>

RECURSIVE NumText(_)
NumText(n) == IF n < 10 THEN Digit[n + 1] ELSE NumText(n \div 10) \o Digit[(n % 10) + 1]

Quote(s) == "\"" \o s \o "\""

LeafText(l) ==
    CASE l.t = "null" -> "null"
      [] l.t = "boolean" -> IF l.b THEN "true" ELSE "false"
      [] l.t = "number" -> NumText(l.n)
      [] l.t = "string" -> Quote(l.s)

RECURSIVE ArrayLines(_, _)
ArrayLines(a, j) ==
    IF j > Len(a) THEN <<>>
    ELSE <<NL, IND, LeafText(a[j])>> \o (IF j < Len(a) THEN <<",">> ELSE <<>>)
             \o ArrayLines(a, j + 1)

RECURSIVE ObjectLines(_, _, _)
ObjectLines(k, a, j) ==
    IF j > Len(k) THEN <<>>
    ELSE <<NL, IND, Quote(k[j]), ":", SP, LeafText(a[j])>>
             \o (IF j < Len(k) THEN <<",">> ELSE <<>>)
             \o ObjectLines(k, a, j + 1)

\* JSON.stringify(v, null, 4) of a value that is not undefined
Stringify(v) ==
    CASE v.t = "array" ->
             IF v.a = <<>> THEN <<"[", "]">> ELSE <<"[">> \o ArrayLines(v.a, 1) \o <<NL, "]">>
      [] v.t = "object" ->
             IF v.k = <<>> THEN <<"{", "}">> ELSE <<"{">> \o ObjectLines(v.k, v.a, 1) \o <<NL, "}">>
      [] OTHER -> <<LeafText(v)>>

IsSpace(tok) == tok \in {NL, IND, SP}

IsLeafText(tok) == \E l \in Leaves : LeafText(l) = tok
LeafOf(tok) == CHOOSE l \in Leaves : LeafText(l) = tok
IsKeyText(tok) == \E s \in Strs : Quote(s) = tok
KeyOf(tok) == CHOOSE s \in Strs : Quote(s) = tok

ParseError == [ok |-> FALSE, v |-> Undefined]
Parsed(v) == [ok |-> TRUE, v |-> v]

\* the elements between "[" and "]": leaf ("," leaf)*
RECURSIVE ParseElems(_, _)
ParseElems(toks, acc) ==
    IF toks = <<>> \/ ~IsLeafText(toks[1]) THEN ParseError
    ELSE IF Len(toks) = 1 THEN Parsed(JArr(Append(acc, LeafOf(toks[1]))))
    ELSE IF toks[2] # "," THEN ParseError
    ELSE ParseElems(SubSeq(toks, 3, Len(toks)), Append(acc, LeafOf(toks[1])))

\* the members between "{" and "}": key ":" leaf ("," key ":" leaf)*
RECURSIVE ParseMembers(_, _, _)
ParseMembers(toks, ks, as) ==
    IF Len(toks) < 3 \/ ~IsKeyText(toks[1]) \/ toks[2] # ":" \/ ~IsLeafText(toks[3])
    THEN ParseError
    ELSE IF Len(toks) = 3
    THEN Parsed(JObj(Append(ks, KeyOf(toks[1])), Append(as, LeafOf(toks[3]))))
    ELSE IF toks[4] # "," THEN ParseError
    ELSE ParseMembers(SubSeq(toks, 5, Len(toks)),
                      Append(ks, KeyOf(toks[1])), Append(as, LeafOf(toks[3])))

\* JSON.parse of a text; an empty text is an error
ParseJSON(text) ==
    LET toks == SelectSeq(text, LAMBDA tok : ~IsSpace(tok))
        n == Len(toks)
    IN  IF n = 0 THEN ParseError
        ELSE IF n = 1
        THEN IF IsLeafText(toks[1]) THEN Parsed(Val(LeafOf(toks[1]), <<>>, <<>>))
             ELSE ParseError
        ELSE IF toks[1] = "[" /\ toks[n] = "]"
        THEN IF n = 2 THEN Parsed(JArr(<<>>)) ELSE ParseElems(SubSeq(toks, 2, n - 1), <<>>)
        ELSE IF toks[1] = "{" /\ toks[n] = "}"
        THEN IF n = 2 THEN Parsed(EmptyObject)
             ELSE ParseMembers(SubSeq(toks, 2, n - 1), <<>>, <<>>)
        ELSE ParseError

(***************************************************************************)
(* Paths.  A path is the sequence of its segments (all paths here are      *)
(* absolute); the empty string is the empty sequence.  An optional string  *)
(* of ConfigOptions is [given, segs].                                      *)
(***************************************************************************)
None == [given |-> FALSE, segs |-> <<>>]
Some(p) == [given |-> TRUE, segs |-> p]

\* truthiness of an optional string: given and not ""
OptTruthy(o) == o.given /\ o.segs # <<>>

RECURSIVE Flatten(_)
Flatten(parts) == IF parts = <<>> THEN <<>> ELSE Head(parts) \o Flatten(Tail(parts))

\* path.normalize: "." and empty segments vanish, ".." removes the segment before it
RECURSIVE Normalize(_, _)
Normalize(segs, out) ==
    IF segs = <<>> THEN out
    ELSE IF Head(segs) \in {"", "."} THEN Normalize(Tail(segs), out)
    ELSE IF Head(segs) = ".."
    THEN Normalize(Tail(segs), IF out = <<>> THEN <<>> ELSE SubSeq(out, 1, Len(out) - 1))
    ELSE Normalize(Tail(segs), Append(out, Head(segs)))

\* path.join(...parts)
pathJoin(parts) == Normalize(Flatten(parts), <<>>)

\* path.dirname(p)
pathDirname(p) == IF p = <<>> THEN <<>> ELSE SubSeq(p, 1, Len(p) - 1)

\* Global.STATE_FOLDER, os.homedir(), and what ProjectDir.getPath() finds
STATE_FOLDER == ".sfdx"
osHomedir == <<"home", "user">>
ProjectRoot == <<"work", "proj">>

\* ProjectDir.getPath(): the project root, or the locator's own error
LocatorOutcomes ==
    {[ok |-> TRUE, err |-> "", path |-> ProjectRoot],
     [ok |-> FALSE, err |-> "InvalidProjectWorkspace", path |-> <<>>]}

(***************************************************************************)
(* Records of the model: the call in progress and the outcome of the last  *)
(* completed call of an instance.                                          *)
(***************************************************************************)
Inst == {1, 2}

NoCall == [op |-> "none", arg |-> Undefined, flag |-> FALSE, perm |-> ""]
Call(op, arg, flag, perm) == [op |-> op, arg |-> arg, flag |-> flag, perm |-> perm]

NoResult == [op |-> "none", arg |-> Undefined, status |-> "none", err |-> "",
             ret |-> Undefined, flag |-> FALSE, path |-> <<>>]
\* the call c returned: a value (ret), a boolean (flag) or a path
Returned(c, ret, flag, p) ==
    [op |-> c.op, arg |-> c.arg, status |-> "ok", err |-> "", ret |-> ret, flag |-> flag, path |-> p]
\* the call c threw (its promise was rejected with) err
Threw(c, err) ==
    [op |-> c.op, arg |-> c.arg, status |-> "throw", err |-> err, ret |-> Undefined,
     flag |-> FALSE, path |-> <<>>]

NoOptions == [rootFolder |-> None, filename |-> None, isGlobal |-> Undefined,
              isState |-> Undefined, filePath |-> None]

(***************************************************************************)
(* The file system: the files by path, the directories that exist, and the *)
(* directories that cannot be created.                                     *)
(***************************************************************************)
Absent == [kind |-> "absent", text |-> <<>>, r |-> FALSE, w |-> FALSE]
File(text, r, w) == [kind |-> "file", text |-> text, r |-> r, w |-> w]
Directory == [kind |-> "dir", text |-> <<>>, r |-> TRUE, w |-> TRUE]

EmptyFs == [files |-> [p \in {} |-> Absent], dirs |-> {}, blocked |-> {}]

FileAt(f, p) == IF p \in DOMAIN f.files THEN f.files[p] ELSE Absent

(***************************************************************************)
(* Config.resolveRootFolder and Config.create.                             *)
(***************************************************************************)
\* variant: the two branches of the conditional swapped
resolveRootFolder_Swapped(isGlobal) ==
    IF ~IsBoolean(isGlobal)
    THEN [kind |-> "throw", err |-> "InvalidTypeForIsGlobal", path |-> <<>>]
    ELSE IF isGlobal.b
    THEN [kind |-> "locator", err |-> "", path |-> <<>>]
    ELSE [kind |-> "return", err |-> "", path |-> osHomedir]

\* variant: no type check, the argument is used for its truthiness
resolveRootFolder_Unchecked(isGlobal) ==
    IF Truthy(isGlobal)
    THEN [kind |-> "return", err |-> "", path |-> osHomedir]
    ELSE [kind |-> "locator", err |-> "", path |-> <<>>]

\* resolveRootFolder up to its await: it throws, returns the home directory, or
\* calls the project-root locator
resolveRootFolder(isGlobal) ==
    IF ~IsBoolean(isGlobal)
    THEN [kind |-> "throw", err |-> "InvalidTypeForIsGlobal", path |-> <<>>]
    ELSE IF isGlobal.b
    THEN [kind |-> "return", err |-> "", path |-> osHomedir]
    ELSE [kind |-> "locator", err |-> "", path |-> <<>>]

\* variant: the option is used for its truthiness
Effective_Truthy(x) == Truthy(x)

\* _isBoolean(x) && x : the effective isGlobal / isState
Effective(x) == IsBoolean(x) /\ x.b

\* the path create stores, from the options and the root folder it resolved
ConfigPath(opts, root) ==
    LET configRootFolder ==
            IF Effective(opts.isGlobal) \/ Effective(opts.isState)
            THEN pathJoin(<<root, <<STATE_FOLDER>>>>)
            ELSE root
    IN  pathJoin(<<configRootFolder,
                   IF OptTruthy(opts.filePath) THEN opts.filePath.segs ELSE <<>>,
                   opts.filename.segs>>)

\* variant: the root folder is resolved before the filename is checked
CreateSync_ResolveFirst(opts) ==
    LET r == resolveRootFolder(opts.isGlobal)
    IN  IF ~OptTruthy(opts.rootFolder) /\ r.kind = "throw"
        THEN [kind |-> "throw", err |-> r.err, path |-> <<>>]
        ELSE IF ~OptTruthy(opts.rootFolder) /\ r.kind = "locator"
        THEN [kind |-> "locator", err |-> "", path |-> <<>>]
        ELSE IF ~OptTruthy(opts.filename)
        THEN [kind |-> "throw", err |-> "InvalidParameter", path |-> <<>>]
        ELSE [kind |-> "done", err |-> "",
              path |-> ConfigPath(opts, IF OptTruthy(opts.rootFolder)
                                        THEN opts.rootFolder.segs ELSE r.path)]

\* variant: the root folder is resolved even when the caller gave one
CreateSync_AlwaysResolve(opts) ==
    LET r == resolveRootFolder(opts.isGlobal)
    IN  IF ~OptTruthy(opts.filename)
        THEN [kind |-> "throw", err |-> "InvalidParameter", path |-> <<>>]
        ELSE IF r.kind = "throw"
        THEN [kind |-> "throw", err |-> r.err, path |-> <<>>]
        ELSE IF r.kind = "locator"
        THEN [kind |-> "locator", err |-> "", path |-> <<>>]
        ELSE [kind |-> "done", err |-> "",
              path |-> ConfigPath(opts, IF OptTruthy(opts.rootFolder)
                                        THEN opts.rootFolder.segs ELSE r.path)]

\* create(options) up to its await: it throws, is done (no await met), or
\* waits for the project-root locator
CreateSync(opts) ==
    LET r == resolveRootFolder(opts.isGlobal)
    IN  IF ~OptTruthy(opts.filename)
        THEN [kind |-> "throw", err |-> "InvalidParameter", path |-> <<>>]
        ELSE IF OptTruthy(opts.rootFolder)
        THEN [kind |-> "done", err |-> "", path |-> ConfigPath(opts, opts.rootFolder.segs)]
        ELSE IF r.kind = "throw"
        THEN [kind |-> "throw", err |-> r.err, path |-> <<>>]
        ELSE IF r.kind = "return"
        THEN [kind |-> "done", err |-> "", path |-> ConfigPath(opts, r.path)]
        ELSE [kind |-> "locator", err |-> "", path |-> <<>>]

\* create(options) is called, for the instance i
CreateCall(i, opts) ==
    /\ pc[i] = "new"
    /\ options' = [options EXCEPT ![i] = opts]
    /\ contents' = [contents EXCEPT ![i] = Undefined]
    /\ call' = [call EXCEPT ![i] = Call("create", Undefined, FALSE, "")]
    /\ LET s == CreateSync(opts)
       IN  /\ pc' = [pc EXCEPT ![i] = IF s.kind = "locator" THEN "create_locator" ELSE "idle"]
           /\ consulted' = [consulted EXCEPT ![i] = (s.kind = "locator")]
           /\ path' = [path EXCEPT ![i] = s.path]
           /\ created' = [created EXCEPT ![i] = (s.kind = "done")]
           /\ result' = [result EXCEPT ![i] =
                            CASE s.kind = "throw" -> Threw(call'[i], s.err)
                              [] s.kind = "done" -> Returned(call'[i], Undefined, FALSE, s.path)
                              [] OTHER -> NoResult]
    /\ UNCHANGED <<fs, pathWasEmpty>>

\* create resumes when ProjectDir.getPath() settles
CreateLocator(i, out) ==
    /\ pc[i] = "create_locator"
    /\ pc' = [pc EXCEPT ![i] = "idle"]
    /\ IF out.ok
       THEN /\ path' = [path EXCEPT ![i] = ConfigPath(options[i], out.path)]
            /\ created' = [created EXCEPT ![i] = TRUE]
            /\ result' = [result EXCEPT ![i] = Returned(call[i], Undefined, FALSE, path'[i])]
       ELSE /\ result' = [result EXCEPT ![i] = Threw(call[i], out.err)]
            /\ UNCHANGED <<path, created>>
    /\ UNCHANGED <<options, contents, call, consulted, fs, pathWasEmpty>>

\* Config.resolveRootFolder(isGlobal), called on its own, up to its await
ResolveCall(i, isGlobal) ==
    /\ pc[i] = "new"
    /\ call' = [call EXCEPT ![i] = Call("resolveRootFolder", isGlobal, FALSE, "")]
    /\ LET c == Call("resolveRootFolder", isGlobal, FALSE, "")
           r == resolveRootFolder(isGlobal)
       IN  IF r.kind = "throw"
           THEN /\ result' = [result EXCEPT ![i] = Threw(c, r.err)]
                /\ consulted' = [consulted EXCEPT ![i] = FALSE]
                /\ pc' = [pc EXCEPT ![i] = "idle"]
           ELSE IF r.kind = "return"
           THEN /\ result' = [result EXCEPT ![i] = Returned(c, Undefined, FALSE, r.path)]
                /\ consulted' = [consulted EXCEPT ![i] = FALSE]
                /\ pc' = [pc EXCEPT ![i] = "idle"]
           ELSE /\ pc' = [pc EXCEPT ![i] = "resolve_locator"]
                /\ consulted' = [consulted EXCEPT ![i] = TRUE]
                /\ result' = [result EXCEPT ![i] = NoResult]
    /\ UNCHANGED <<options, path, created, contents, fs, pathWasEmpty>>

\* resolveRootFolder resumes when ProjectDir.getPath() settles
ResolveLocator(i, out) ==
    /\ pc[i] = "resolve_locator"
    /\ pc' = [pc EXCEPT ![i] = "idle"]
    /\ result' = [result EXCEPT ![i] =
                     IF out.ok THEN Returned(call[i], Undefined, FALSE, out.path)
                     ELSE Threw(call[i], out.err)]
    /\ UNCHANGED <<options, path, created, contents, call, consulted, fs, pathWasEmpty>>

(***************************************************************************)
(* The options the callers of create pass.                                 *)
(***************************************************************************)
RootFolders == {None, Some(<<>>), Some(<<"tmp", "root">>)}
Filenames == {None, Some(<<>>), Some(<<"config.json">>)}
FilePaths == {None, Some(<<"sub">>), Some(<<"..">>)}
\* isGlobal / isState: omitted, a boolean, or a value of another type
Flags == {Undefined, JBool(TRUE), JBool(FALSE), JStr("yes")}

AllOptions ==
    [rootFolder : RootFolders, filename : Filenames, isGlobal : Flags,
     isState : Flags, filePath : FilePaths]

InitCreate ==
    /\ pc = [i \in Inst |-> "new"]
    /\ options = [i \in Inst |-> NoOptions]
    /\ path = [i \in Inst |-> <<>>]
    /\ created = [i \in Inst |-> FALSE]
    /\ contents = [i \in Inst |-> Undefined]
    /\ call = [i \in Inst |-> NoCall]
    /\ result = [i \in Inst |-> NoResult]
    /\ consulted = [i \in Inst |-> FALSE]
    /\ fs = EmptyFs
    /\ pathWasEmpty = TRUE

NextCreate ==
    \/ \E opts \in AllOptions : CreateCall(1, opts)
    \/ \E out \in LocatorOutcomes : CreateLocator(1, out)
    \/ \E g \in Flags : ResolveCall(1, g)
    \/ \E out \in LocatorOutcomes : ResolveLocator(1, out)

\* one call of the factory, or of the root-folder resolution
SpecCreate == InitCreate /\ [][NextCreate]_vars

(***************************************************************************)
(* The file-system layer (SfdxUtil) the operations call.  Each operator    *)
(* gives the error of the call ("" when it succeeds) and what it yields.   *)
(***************************************************************************)
SetFile(f, p, x) ==
    [f EXCEPT !.files = [q \in (DOMAIN f.files) \cup {p} |-> IF q = p THEN x ELSE f.files[q]]]

\* SfdxUtil.access(path, perm)
SfdxAccess(f, p, perm) ==
    LET x == FileAt(f, p)
    IN  IF x.kind = "absent" THEN "ENOENT"
        ELSE IF perm = "R_OK" /\ ~x.r THEN "EACCES"
        ELSE IF perm = "W_OK" /\ ~x.w THEN "EACCES"
        ELSE ""

\* SfdxUtil.readJSON(path): read the file, then parse it
SfdxReadJSON(f, p) ==
    LET x == FileAt(f, p)
        j == ParseJSON(x.text)
    IN  IF x.kind = "absent" THEN [err |-> "ENOENT", v |-> Undefined]
        ELSE IF x.kind = "dir" THEN [err |-> "EISDIR", v |-> Undefined]
        ELSE IF ~x.r THEN [err |-> "EACCES", v |-> Undefined]
        ELSE IF ~j.ok THEN [err |-> "JsonParseError", v |-> Undefined]
        ELSE [err |-> "", v |-> j.v]

\* SfdxUtil.mkdirp(dir)
SfdxMkdirp(f, d) ==
    IF d \in f.blocked THEN [err |-> "EACCES", fs |-> f]
    ELSE [err |-> "", fs |-> [f EXCEPT !.dirs = @ \cup {d}]]

\* SfdxUtil.writeFile(path, text): create the file or replace all of its text
SfdxWriteFile(f, p, text) ==
    LET x == FileAt(f, p)
    IN  IF pathDirname(p) \notin f.dirs THEN [err |-> "ENOENT", fs |-> f]
        ELSE IF x.kind = "dir" THEN [err |-> "EISDIR", fs |-> f]
        ELSE IF x.kind = "file" /\ ~x.w THEN [err |-> "EACCES", fs |-> f]
        ELSE IF x.kind = "file" THEN [err |-> "", fs |-> SetFile(f, p, File(text, x.r, x.w))]
        ELSE [err |-> "", fs |-> SetFile(f, p, File(text, TRUE, TRUE))]

\* SfdxUtil.unlink(path)
SfdxUnlink(f, p) ==
    LET x == FileAt(f, p)
    IN  IF x.kind = "absent" THEN [err |-> "ENOENT", fs |-> f]
        ELSE IF x.kind = "dir" THEN [err |-> "EISDIR", fs |-> f]
        ELSE [err |-> "", fs |-> SetFile(f, p, Absent)]

\* SfdxUtil.stat(path)
SfdxStat(f, p) == IF FileAt(f, p).kind = "absent" THEN "ENOENT" ELSE ""

(***************************************************************************)
(* The operations of a Config instance.                                    *)
(***************************************************************************)
\* variant: the contents are returned as they are, unset or not
getContents_Raw(c) == c

\* getContents(): this.contents || {}
getContents(c) == IF Truthy(c) THEN c ELSE EmptyObject

\* variant: the error of the permission check is thrown again
ConfigAccess_Rethrow(err) ==
    [status |-> IF err = "" THEN "ok" ELSE "throw", err |-> err, flag |-> (err = "")]

\* access(perm), once SfdxUtil.access settled with err: try { ...; true } catch { false }
ConfigAccess(err) == [status |-> "ok", err |-> "", flag |-> (err = "")]

\* variant: exists() asks whether the file is there, not whether it may be read
ExistsPerm_Visible == "F_OK"

\* exists(): access(fsConstants.R_OK)
ExistsPerm == "R_OK"

\* variant: every error is suppressed unless throwOnNotFound, not ENOENT alone
ReadOutcome_AnyError(c, r, throwOnNotFound) ==
    IF r.err = ""
    THEN [contents |-> r.v, status |-> "ok", err |-> "", ret |-> r.v]
    ELSE IF ~throwOnNotFound
    THEN [contents |-> EmptyObject, status |-> "ok", err |-> "", ret |-> EmptyObject]
    ELSE [contents |-> c, status |-> "throw", err |-> r.err, ret |-> Undefined]

\* variant: a read that fails clears the contents
ReadOutcome_ClearsOnError(c, r, throwOnNotFound) ==
    IF r.err = ""
    THEN [contents |-> r.v, status |-> "ok", err |-> "", ret |-> r.v]
    ELSE IF r.err = "ENOENT" /\ ~throwOnNotFound
    THEN [contents |-> EmptyObject, status |-> "ok", err |-> "", ret |-> EmptyObject]
    ELSE [contents |-> Undefined, status |-> "throw", err |-> r.err, ret |-> Undefined]

\* read(throwOnNotFound), once SfdxUtil.readJSON settled with r; c is this.contents
ReadOutcome(c, r, throwOnNotFound) ==
    IF r.err = ""
    THEN [contents |-> r.v, status |-> "ok", err |-> "", ret |-> r.v]
    ELSE IF r.err = "ENOENT" /\ ~throwOnNotFound
    THEN [contents |-> EmptyObject, status |-> "ok", err |-> "", ret |-> EmptyObject]
    ELSE [contents |-> c, status |-> "throw", err |-> r.err, ret |-> Undefined]

\* the flag read receives: its parameter default is false
ReadFlag(arg) == Truthy(DefaultParam(arg, JBool(FALSE)))

\* variant: readJSON without a default of its own
ReadJSONFlag_NoDefault(arg) == ReadFlag(arg)

\* the flag readJSON hands to read: its parameter default is true
ReadJSONFlag(arg) == ReadFlag(DefaultParam(arg, JBool(TRUE)))

\* variant: write does not take the new contents over
WriteContents_KeepOld(c, newContents) == c

\* variant: write takes its argument over even when it is nil
WriteContents_Always(c, newContents) == newContents

\* write(newContents): if (!_isNil(newContents)) this.setContents(newContents)
WriteContents(c, newContents) == IF ~IsNil(newContents) THEN newContents ELSE c

\* variant: JSON.stringify without the indentation argument
WriteText_Compact(c) == SelectSeq(Stringify(getContents(c)), LAMBDA tok : ~IsSpace(tok))

\* the text write hands to writeFile
WriteText(c) == Stringify(getContents(c))

\* variant: the test of unlink negated
UnlinkDecision_Negated(exists) == IF exists THEN "throw" ELSE "delete"

\* unlink(): if (exists) delete, else throw TargetFileNotFound
UnlinkDecision(exists) == IF exists THEN "delete" ELSE "throw"

Finish(i, r) ==
    /\ pc' = [pc EXCEPT ![i] = "idle"]
    /\ result' = [result EXCEPT ![i] = r]

AccessCall(i, perm) ==
    /\ pc[i] = "idle" /\ created[i]
    /\ call' = [call EXCEPT ![i] = Call("access", Undefined, FALSE, perm)]
    /\ pc' = [pc EXCEPT ![i] = "access_io"]
    /\ UNCHANGED <<options, path, created, contents, result, consulted, fs, pathWasEmpty>>

ExistsCall(i) ==
    /\ pc[i] = "idle" /\ created[i]
    /\ call' = [call EXCEPT ![i] = Call("exists", Undefined, FALSE, ExistsPerm)]
    /\ pc' = [pc EXCEPT ![i] = "access_io"]
    /\ UNCHANGED <<options, path, created, contents, result, consulted, fs, pathWasEmpty>>

\* SfdxUtil.access settles; access (and exists, which awaits it) returns
AccessIO(i) ==
    /\ pc[i] = "access_io"
    /\ LET a == ConfigAccess(SfdxAccess(fs, path[i], call[i].perm))
       IN  Finish(i, IF a.status = "ok" THEN Returned(call[i], Undefined, a.flag, <<>>)
                     ELSE Threw(call[i], a.err))
    /\ UNCHANGED <<options, path, created, contents, call, consulted, fs, pathWasEmpty>>

ReadCall(i, arg) ==
    /\ pc[i] = "idle" /\ created[i]
    /\ call' = [call EXCEPT ![i] = Call("read", arg, ReadFlag(arg), "")]
    /\ pc' = [pc EXCEPT ![i] = "read_io"]
    /\ UNCHANGED <<options, path, created, contents, result, consulted, fs, pathWasEmpty>>

ReadJSONCall(i, arg) ==
    /\ pc[i] = "idle" /\ created[i]
    /\ call' = [call EXCEPT ![i] = Call("readJSON", arg, ReadJSONFlag(arg), "")]
    /\ pc' = [pc EXCEPT ![i] = "read_io"]
    /\ UNCHANGED <<options, path, created, contents, result, consulted, fs, pathWasEmpty>>

\* SfdxUtil.readJSON settles; read (and readJSON, which awaits it) returns or throws
ReadIO(i) ==
    /\ pc[i] = "read_io"
    /\ LET o == ReadOutcome(contents[i], SfdxReadJSON(fs, path[i]), call[i].flag)
       IN  /\ contents' = [contents EXCEPT ![i] = o.contents]
           /\ Finish(i, IF o.status = "ok" THEN Returned(call[i], o.ret, FALSE, <<>>)
                        ELSE Threw(call[i], o.err))
    /\ UNCHANGED <<options, path, created, call, consulted, fs, pathWasEmpty>>

WriteCall(i, newContents) ==
    /\ pc[i] = "idle" /\ created[i]
    /\ call' = [call EXCEPT ![i] = Call("write", newContents, FALSE, "")]
    /\ contents' = [contents EXCEPT ![i] = WriteContents(contents[i], newContents)]
    /\ pc' = [pc EXCEPT ![i] = "write_mkdirp"]
    /\ UNCHANGED <<options, path, created, result, consulted, fs, pathWasEmpty>>

\* SfdxUtil.mkdirp(dirname(path)) settles
WriteMkdirp(i) ==
    /\ pc[i] = "write_mkdirp"
    /\ LET m == SfdxMkdirp(fs, pathDirname(path[i]))
       IN  IF m.err = ""
           THEN /\ fs' = m.fs
                /\ pc' = [pc EXCEPT ![i] = "write_file"]
                /\ UNCHANGED result
           ELSE /\ Finish(i, Threw(call[i], m.err))
                /\ UNCHANGED fs
    /\ UNCHANGED <<options, path, created, contents, call, consulted, pathWasEmpty>>

\* SfdxUtil.writeFile settles; write returns getContents()
WriteFile(i) ==
    /\ pc[i] = "write_file"
    /\ LET w == SfdxWriteFile(fs, path[i], WriteText(contents[i]))
       IN  IF w.err = ""
           THEN /\ fs' = w.fs
                /\ Finish(i, Returned(call[i], getContents(contents[i]), FALSE, <<>>))
           ELSE /\ Finish(i, Threw(call[i], w.err))
                /\ UNCHANGED fs
    /\ UNCHANGED <<options, path, created, contents, call, consulted, pathWasEmpty>>

StatCall(i) ==
    /\ pc[i] = "idle" /\ created[i]
    /\ call' = [call EXCEPT ![i] = Call("stat", Undefined, FALSE, "")]
    /\ pc' = [pc EXCEPT ![i] = "stat_io"]
    /\ UNCHANGED <<options, path, created, contents, result, consulted, fs, pathWasEmpty>>

\* SfdxUtil.stat settles
StatIO(i) ==
    /\ pc[i] = "stat_io"
    /\ LET e == SfdxStat(fs, path[i])
       IN  Finish(i, IF e = "" THEN Returned(call[i], Undefined, FALSE, <<>>)
                     ELSE Threw(call[i], e))
    /\ UNCHANGED <<options, path, created, contents, call, consulted, fs, pathWasEmpty>>

UnlinkCall(i) ==
    /\ pc[i] = "idle" /\ created[i]
    /\ call' = [call EXCEPT ![i] = Call("unlink", Undefined, FALSE, ExistsPerm)]
    /\ pc' = [pc EXCEPT ![i] = "unlink_exists"]
    /\ UNCHANGED <<options, path, created, contents, result, consulted, fs, pathWasEmpty>>

\* unlink's exists() settles: issue the delete, or throw TargetFileNotFound
UnlinkExists(i) ==
    /\ pc[i] = "unlink_exists"
    /\ LET a == ConfigAccess(SfdxAccess(fs, path[i], call[i].perm))
       IN  IF UnlinkDecision(a.flag) = "delete"
           THEN /\ pc' = [pc EXCEPT ![i] = "unlink_io"]
                /\ UNCHANGED result
           ELSE Finish(i, Threw(call[i], "TargetFileNotFound"))
    /\ UNCHANGED <<options, path, created, contents, call, consulted, fs, pathWasEmpty>>

\* variant: the instance forgets its path once the file is deleted
UnlinkIO_ForgetsPath(i) ==
    /\ pc[i] = "unlink_io"
    /\ LET u == SfdxUnlink(fs, path[i])
       IN  IF u.err = ""
           THEN /\ fs' = u.fs
                /\ path' = [path EXCEPT ![i] = <<>>]
                /\ Finish(i, Returned(call[i], Undefined, FALSE, <<>>))
           ELSE /\ Finish(i, Threw(call[i], u.err))
                /\ UNCHANGED <<fs, path>>
    /\ UNCHANGED <<options, created, contents, call, consulted, pathWasEmpty>>

\* SfdxUtil.unlink settles
UnlinkIO(i) ==
    /\ pc[i] = "unlink_io"
    /\ LET u == SfdxUnlink(fs, path[i])
       IN  IF u.err = ""
           THEN /\ fs' = u.fs
                /\ Finish(i, Returned(call[i], Undefined, FALSE, <<>>))
           ELSE /\ Finish(i, Threw(call[i], u.err))
                /\ UNCHANGED fs
    /\ UNCHANGED <<options, path, created, contents, call, consulted, pathWasEmpty>>

\* setContents(value)
SetContents(i, value) ==
    /\ pc[i] = "idle" /\ created[i]
    /\ contents' = [contents EXCEPT ![i] = value]
    /\ UNCHANGED <<pc, options, path, created, call, result, consulted, fs, pathWasEmpty>>

\* getPath(): this.path
getPath(i) == path[i]

\* getIsGlobal(): this.options.isGlobal
getIsGlobal(i) == options[i].isGlobal

(***************************************************************************)
(* The operations on the file of a Config that create returned.            *)
(***************************************************************************)
\* the options of the instances: a global config, and a config under a root folder
GlobalOptions ==
    [rootFolder |-> None, filename |-> Some(<<"config.json">>), isGlobal |-> JBool(TRUE),
     isState |-> Undefined, filePath |-> None]
LocalOptions ==
    [rootFolder |-> Some(<<"tmp", "root">>), filename |-> Some(<<"config.json">>),
     isGlobal |-> JBool(FALSE), isState |-> JBool(FALSE), filePath |-> Some(<<"sub">>)]
SpecOptions == {GlobalOptions, LocalOptions}

\* what a file written by another program may hold: JSON, a truncated text, nothing
ForeignTexts == {Stringify(JObj(<<"a">>, <<LNum(1)>>)), <<"{">>, <<>>}

\* the states of the file system in which the operations may start, for the path p
InitialFs(p) ==
    {[files |-> (p :> Absent), dirs |-> {}, blocked |-> {}],
     [files |-> (p :> Absent), dirs |-> {}, blocked |-> {pathDirname(p)}],
     [files |-> (p :> Absent), dirs |-> {pathDirname(p)}, blocked |-> {}],
     [files |-> (p :> Directory), dirs |-> {pathDirname(p)}, blocked |-> {}]}
    \cup {[files |-> (p :> File(t, r, w)), dirs |-> {pathDirname(p)}, blocked |-> {}] :
              t \in ForeignTexts, r \in BOOLEAN, w \in BOOLEAN}

\* what the callers pass
Perms == {"F_OK", "R_OK", "W_OK"}
ReadArgs == {Undefined, JBool(TRUE), JBool(FALSE)}
WriteArgs == JsonValues \cup {Undefined}

Actors == {1}

Init ==
    /\ \E opts \in SpecOptions :
          /\ options = [i \in Inst |-> opts]
          /\ path = [i \in Inst |-> CreateSync(opts).path]
          /\ fs \in InitialFs(CreateSync(opts).path)
    /\ pathWasEmpty = (FileAt(fs, path[1]).kind = "absent")
    /\ pc = [i \in Inst |-> "idle"]
    /\ created = [i \in Inst |-> TRUE]
    /\ contents = [i \in Inst |-> Undefined]
    /\ call = [i \in Inst |-> NoCall]
    /\ result = [i \in Inst |-> NoResult]
    /\ consulted = [i \in Inst |-> FALSE]

Next ==
    \E i \in Actors :
        \/ \E perm \in Perms : AccessCall(i, perm)
        \/ ExistsCall(i)
        \/ AccessIO(i)
        \/ \E arg \in ReadArgs : ReadCall(i, arg)
        \/ \E arg \in ReadArgs : ReadJSONCall(i, arg)
        \/ ReadIO(i)
        \/ \E x \in WriteArgs : WriteCall(i, x)
        \/ WriteMkdirp(i)
        \/ WriteFile(i)
        \/ StatCall(i)
        \/ StatIO(i)
        \/ UnlinkCall(i)
        \/ UnlinkExists(i)
        \/ UnlinkIO(i)
        \/ \E v \in WriteArgs : SetContents(i, v)

Spec == Init /\ [][Next]_vars

(***************************************************************************)
(* Properties.  A step "completes" a call of instance i when it takes pc[i]*)
(* from an awaiting position to "idle"; result[i] is then still the        *)
(* outcome of the call before it and result'[i] the outcome of this one.   *)
(***************************************************************************)
Completes(i, from) == pc[i] \in from /\ pc'[i] = "idle"

\* C1 (as stated): for every JSON-representable X, null, false, 0 and "" included,
\* a successful write(X) followed by read() returns a value deep-equal to X.
C1_RoundTripAnyJson ==
    [][\A i \in Actors :
          (/\ Completes(i, {"read_io"})
           /\ result[i].op = "write" /\ result[i].status = "ok"
           /\ result[i].arg \in JsonValues)
          => (result'[i].status = "ok" /\ result'[i].ret = result[i].arg)]_vars

\* C1 (amended): for every truthy JSON-representable X (an object, an array, true, a
\* number other than 0, a string other than ""), a successful write(X) followed by
\* read() of the file, when the file is readable, returns a value deep-equal to X and
\* leaves X as the contents; for X one of false, 0 and "" the read returns {}.
C1_RoundTripTruthy ==
    [][\A i \in Actors :
          (/\ Completes(i, {"read_io"})
           /\ result[i].op = "write" /\ result[i].status = "ok"
           /\ result[i].arg \in JsonValues /\ ~IsNil(result[i].arg)
           /\ FileAt(fs, path[i]).r)
          => LET X == result[i].arg
                 back == IF Truthy(X) THEN X ELSE EmptyObject
             IN  /\ result'[i].status = "ok"
                 /\ result'[i].ret = back
                 /\ contents'[i] = back]_vars

\* a read returned the array [1] from a path that held no file at the start: only a
\* write([1]) can have put it there
C1_Witness ==
    /\ pathWasEmpty
    /\ result[1].op = "read" /\ result[1].status = "ok"
    /\ result[1].ret = JArr(<<LNum(1)>>)

\* C2: a read of a path with no file returns {} and sets the contents to {} when
\* throwOnNotFound is false (read's default), and throws the not-found error, the
\* contents untouched, when it is true (readJSON's default); readJSON(b) ends as
\* read(b) does in the same state, for both b.
C2_ReadMissing ==
    [][\A i \in Actors :
          Completes(i, {"read_io"}) =>
             LET arg == call[i].arg
                 throwOnNotFound ==
                     IF arg.t = "undefined" THEN call[i].op = "readJSON" ELSE arg.b
                 asRead == ReadOutcome(contents[i], SfdxReadJSON(fs, path[i]), ReadFlag(arg))
             IN  /\ (FileAt(fs, path[i]).kind = "absent" /\ ~throwOnNotFound)
                       => (/\ result'[i].status = "ok"
                           /\ result'[i].ret = EmptyObject
                           /\ contents'[i] = EmptyObject)
                 /\ (FileAt(fs, path[i]).kind = "absent" /\ throwOnNotFound)
                       => (/\ result'[i] = Threw(call[i], "ENOENT")
                           /\ contents'[i] = contents[i])
                 /\ (call[i].op = "readJSON" /\ arg.t # "undefined")
                       => (/\ result'[i].status = asRead.status
                           /\ result'[i].err = asRead.err
                           /\ result'[i].ret = asRead.ret
                           /\ contents'[i] = asRead.contents)]_vars

\* readJSON() with no argument threw the not-found error
C2_Witness ==
    /\ result[1].op = "readJSON" /\ result[1].arg = Undefined
    /\ result[1].status = "throw" /\ result[1].err = "ENOENT"
    /\ FileAt(fs, path[1]).kind = "absent"

HasDotDot(segs) == \E j \in 1..Len(segs) : segs[j] = ".."
LayoutRoot(o) ==
    IF OptTruthy(o.rootFolder) THEN o.rootFolder.segs
    ELSE IF o.isGlobal = JBool(TRUE) THEN osHomedir
    ELSE ProjectRoot
InStateFolder(o) == o.isGlobal = JBool(TRUE) \/ o.isState = JBool(TRUE)
LayoutPath(o) ==
    pathJoin(<<LayoutRoot(o),
               IF InStateFolder(o) THEN <<STATE_FOLDER>> ELSE <<>>,
               IF o.filePath.given THEN o.filePath.segs ELSE <<>>,
               o.filename.segs>>)
StartsWith(p, q) == Len(p) >= Len(q) /\ SubSeq(p, 1, Len(q)) = q

CreateDone(i) == call[i].op = "create" /\ pc[i] = "idle"

C5_NonBooleanIsGlobalIsLocal ==
    \A i \in Actors :
       (/\ CreateDone(i)
        /\ OptTruthy(options[i].filename) /\ ~OptTruthy(options[i].rootFolder)
        /\ ~IsBoolean(options[i].isGlobal))
       => \/ /\ created[i] /\ result[i].status = "ok"
             /\ path[i] = LayoutPath([options[i] EXCEPT !.isGlobal = JBool(FALSE)])
          \/ /\ ~created[i] /\ result[i].status = "throw"
             /\ result[i].err = "InvalidProjectWorkspace"

\* C6: create with a missing or empty filename throws InvalidParameter, whatever the
\* other options are, without consulting the project-root locator or touching the file
\* system, and returns no Config.
C6_FilenameRequired ==
    \A i \in Actors :
       (call[i].op = "create" /\ ~OptTruthy(options[i].filename))
       => /\ pc[i] = "idle"
          /\ result[i] = Threw(call[i], "InvalidParameter")
          /\ ~consulted[i]
          /\ ~created[i]
          /\ fs = EmptyFs

\* create without a filename, with options that would otherwise consult the locator
C6_Witness ==
    /\ CreateDone(1)
    /\ options[1].filename = None /\ options[1].rootFolder = None
    /\ options[1].isGlobal = JBool(FALSE)
    /\ result[1].err = "InvalidParameter"

C8_ResolveRootFolder ==
    \A i \in Actors :
       /\ call[i].op = "resolveRootFolder" =>
             LET g == call[i].arg
             IN  /\ ~IsBoolean(g) =>
                       /\ pc[i] = "idle" /\ ~consulted[i]
                       /\ result[i] = Threw(call[i], "InvalidTypeForIsGlobal")
                 /\ g = JBool(TRUE) =>
                       /\ pc[i] = "idle" /\ ~consulted[i]
                       /\ result[i] = Returned(call[i], Undefined, FALSE, osHomedir)
                 /\ g = JBool(FALSE) =>
                       /\ consulted[i]
                       /\ pc[i] = "idle" =>
                             \E out \in LocatorOutcomes :
                                result[i] = IF out.ok
                                            THEN Returned(call[i], Undefined, FALSE, out.path)
                                            ELSE Threw(call[i], out.err)
       /\ (CreateDone(i) /\ consulted[i]) =>
             \/ created[i] /\ result[i].status = "ok"
             \/ /\ ~created[i]
                /\ \E out \in LocatorOutcomes : ~out.ok /\ result[i] = Threw(call[i], out.err)

\* resolveRootFolder(false) ended with the error of the locator
C8_Witness ==
    /\ call[1].op = "resolveRootFolder" /\ call[1].arg = JBool(FALSE) /\ pc[1] = "idle"
    /\ consulted[1]
    /\ result[1].status = "throw" /\ result[1].err = "InvalidProjectWorkspace"

\* C9: a read whose file-system read or parse fails with anything but not-found throws
\* that error, for both values of throwOnNotFound, and leaves the contents as they were.
C9_ReadErrorsPropagate ==
    [][\A i \in Actors :
          Completes(i, {"read_io"}) =>
             LET r == SfdxReadJSON(fs, path[i])
             IN  r.err \notin {"", "ENOENT"}
                    => (/\ result'[i] = Threw(call[i], r.err)
                        /\ contents'[i] = contents[i])]_vars

\* read(false) of a file of malformed JSON threw the parse error
C9_Witness ==
    /\ result[1].op = "read" /\ result[1].arg = JBool(FALSE)
    /\ result[1].status = "throw" /\ result[1].err = "JsonParseError"

\* C10: access(perm) never throws; it returns true when the permission check on the
\* path succeeds and false when it fails, whatever the cause; it changes neither the
\* file system nor the instance; exists() returns what access(R_OK) returns.
C10_AccessNeverThrows ==
    [][\A i \in Actors :
          Completes(i, {"access_io"}) =>
             LET perm == IF call[i].op = "exists" THEN "R_OK" ELSE call[i].perm
             IN  /\ result'[i].status = "ok"
                 /\ result'[i].flag = (SfdxAccess(fs, path[i], perm) = "")
                 /\ fs' = fs
                 /\ contents'[i] = contents[i]
                 /\ path'[i] = path[i]
                 /\ options'[i] = options[i]]_vars

\* access(R_OK) returned false for a file that exists and may not be read
C10_Witness ==
    /\ result[1].op = "access" /\ call[1].perm = "R_OK" /\ pc[1] = "idle"
    /\ result[1].status = "ok" /\ ~result[1].flag
    /\ FileAt(fs, path[1]).kind = "file"

WriteSucceeds(i) == Completes(i, {"write_file"}) /\ result'[i].status = "ok"

\* C12 (as stated): after a successful write(newContents) the parent directory
\* exists, the file holds exactly the serialization of the value write returned, and
\* that value is newContents when newContents is not nil and the instance's current
\* contents ({} if there are none) when it is nil.
C12_WriteStoresArgument ==
    [][\A i \in Actors :
          WriteSucceeds(i) =>
             /\ pathDirname(path[i]) \in fs'.dirs
             /\ FileAt(fs', path[i]).kind = "file"
             /\ FileAt(fs', path[i]).text = Stringify(result'[i].ret)
             /\ result'[i].ret =
                   IF ~IsNil(call[i].arg) THEN call[i].arg
                   ELSE IF Truthy(contents[i]) THEN contents[i]
                   ELSE EmptyObject]_vars

\* C12 (amended): after a successful write(newContents) the parent directory exists
\* and the file holds exactly the serialization of the value write returned; that
\* value is newContents when newContents is truthy, the instance's current contents
\* when newContents is nil and they are truthy, and {} in every other case (newContents
\* one of false, 0, ""; or nil with contents that are unset or falsy).
C12_WriteStoresTruthyArgument ==
    [][\A i \in Actors :
          WriteSucceeds(i) =>
             LET chosen == IF ~IsNil(call[i].arg) THEN call[i].arg ELSE contents[i]
             IN  /\ pathDirname(path[i]) \in fs'.dirs
                 /\ FileAt(fs', path[i]).kind = "file"
                 /\ FileAt(fs', path[i]).text = Stringify(result'[i].ret)
                 /\ result'[i].ret = IF Truthy(chosen) THEN chosen ELSE EmptyObject]_vars

\* write() with no argument replaced a file of another program by the contents that
\* setContents had given the instance
C12_Witness ==
    /\ ~pathWasEmpty
    /\ result[1].op = "write" /\ result[1].arg = Undefined /\ result[1].status = "ok"
    /\ result[1].ret = JObj(<<"a">>, <<LNum(0)>>)
    /\ FileAt(fs, path[1]).text = Stringify(JObj(<<"a">>, <<LNum(0)>>))

(***************************************************************************)
(* Two instances on the same path, their writes and unlinks interleaved at *)
(* the awaits.                                                             *)
(***************************************************************************)
\* what the two instances write: values whose texts differ in length
RaceArgs == {JArr(<<LNum(0)>>), JObj(<<"a">>, <<LNum(1)>>)}

NextRace ==
    \E i \in Inst :
        \/ \E x \in RaceArgs : WriteCall(i, x)
        \/ WriteMkdirp(i)
        \/ WriteFile(i)
        \/ UnlinkCall(i)
        \/ UnlinkExists(i)
        \/ UnlinkIO(i)

SpecRace == Init /\ [][NextRace]_vars

\* the file system lets a write of the path p through: the directory can be made,
\* and what is at p is not a directory and not a file closed to writing
PermitsWrite(f, p) ==
    /\ pathDirname(p) \notin f.blocked
    /\ FileAt(f, p).kind # "dir"
    /\ FileAt(f, p).kind = "file" => FileAt(f, p).w

\* C13: when two instances on the same path write concurrently, in every interleaving
\* of their directory-creation and file-overwrite steps each write completes (where the
\* file system lets a write through at all), each overwrite leaves exactly the
\* serialization of its own value in the file, and no other step but a delete changes
\* the file: once both writes are done the file holds the text of A or of B, that of
\* the overwrite that came last.
C13_LastWriterWins ==
    [][/\ \A i \in Inst :
             /\ (pc[i] = "write_mkdirp" /\ pc'[i] # "write_mkdirp" /\ PermitsWrite(fs, path[i]))
                   => pc'[i] = "write_file"
             /\ (pc[i] = "write_file" /\ pc'[i] # "write_file" /\ PermitsWrite(fs, path[i]))
                   => (/\ pc'[i] = "idle"
                       /\ result'[i] = Returned(call[i], call[i].arg, FALSE, <<>>)
                       /\ FileAt(fs', path[i]) =
                             [FileAt(fs', path[i]) EXCEPT !.kind = "file",
                                                          !.text = Stringify(call[i].arg)])
       /\ FileAt(fs', path[1]) # FileAt(fs, path[1])
             => \E i \in Inst :
                   \/ pc[i] = "write_file" /\ pc'[i] = "idle" /\ result'[i].status = "ok"
                   \/ pc[i] = "unlink_io" /\ pc'[i] = "idle" /\ result'[i].status = "ok"
       /\ (\A i \in Inst : pc'[i] = "idle" /\ result'[i].op = "write"
                              /\ result'[i].status = "ok")
             => /\ FileAt(fs', path[1]).kind = "file"
                /\ \E i \in Inst : FileAt(fs', path[1]).text = Stringify(result'[i].arg)]_vars

\* both instances wrote, different values, and the file holds the value of the first
C13_Witness ==
    /\ path[1] = path[2]
    /\ \A i \in Inst : pc[i] = "idle" /\ result[i].op = "write" /\ result[i].status = "ok"
    /\ result[1].arg = JArr(<<LNum(0)>>) /\ result[2].arg = JObj(<<"a">>, <<LNum(1)>>)
    /\ FileAt(fs, path[1]).text = Stringify(JArr(<<LNum(0)>>))

\* C14: in every interleaving of the operations of two instances on the same path, an
\* unlink() that finds no file to delete, at its existence check or at its delete,
\* fails with TargetFileNotFound and with no other error.
C14_AbsentTargetIsTargetFileNotFound ==
    [][\A i \in Inst :
          (/\ pc[i] \in {"unlink_exists", "unlink_io"} /\ pc'[i] = "idle"
           /\ FileAt(fs, path[i]).kind = "absent")
          => result'[i] = Threw(call[i], "TargetFileNotFound")]_vars

\* C15: in every reachable state getContents() yields a value and never undefined;
\* while the contents are unset or nil (before any read or write, after a failed read,
\* after setContents(undefined) or setContents(null)) it yields the empty mapping.
C15_GetContentsNeverUndefined ==
    \A i \in Actors :
       /\ getContents(contents[i]) # Undefined
       /\ getContents(contents[i]) \in JsonValues
       /\ IsNil(contents[i]) => getContents(contents[i]) = EmptyObject

\* a read failed on an instance whose contents were never assigned
C15_Witness ==
    /\ result[1].op \in {"read", "readJSON"} /\ result[1].status = "throw"
    /\ pc[1] = "idle" /\ contents[1] = Undefined
    /\ getContents(contents[1]) = EmptyObject

\* C16: a step changes the contents of an instance only if it is the completion of a
\* read that returns (the contents become what it returns: the parsed file, or {} on a
\* suppressed miss), the call of write with a non-nil argument (the contents become the
\* argument), or setContents; every step of access, exists, stat and unlink, the call
\* of write with a nil argument, both I/O steps of write and the completion of a read
\* that throws leave the contents as they were.
C16_ContentsFrame ==
    [][\A i \in Actors :
          /\ contents'[i] # contents[i] =>
                \/ /\ Completes(i, {"read_io"}) /\ result'[i].status = "ok"
                   /\ contents'[i] = result'[i].ret
                \/ /\ pc[i] = "idle" /\ pc'[i] = "write_mkdirp"
                   /\ ~IsNil(call'[i].arg) /\ contents'[i] = call'[i].arg
                \/ pc[i] = "idle" /\ pc'[i] = "idle" /\ call' = call /\ result' = result
          /\ (\/ pc[i] \in {"access_io", "stat_io", "unlink_exists", "unlink_io",
                            "write_mkdirp", "write_file"}
              \/ pc'[i] \in {"access_io", "stat_io", "unlink_exists", "read_io"}
              \/ pc'[i] = "write_mkdirp" /\ pc[i] = "idle" /\ IsNil(call'[i].arg)
              \/ Completes(i, {"read_io"}) /\ result'[i].status = "throw")
             => contents'[i] = contents[i]]_vars

\* a read threw on a file that is not JSON and the contents set before are still there
C16_Witness ==
    /\ result[1].op = "read" /\ result[1].status = "throw"
    /\ result[1].err = "JsonParseError"
    /\ contents[1] = JArr(<<LNum(0)>>)

\* C17: no step of access, read, readJSON, write, exists, stat, unlink or setContents,
\* whether the operation succeeds or fails, changes the path or the options of an
\* instance, so getPath() and getIsGlobal() keep returning what create stored; and
\* whenever an operation is at a file-system step the instance is a created one whose
\* path is the fully resolved path of its options.
C17_PathAndOptionsFixed ==
    [][\A i \in Actors :
          /\ getPath(i)' = getPath(i)
          /\ getIsGlobal(i)' = getIsGlobal(i)
          /\ options'[i] = options[i]
          /\ getPath(i)' = LayoutPath(options[i])
          /\ pc'[i] # "idle" => created'[i] /\ path'[i] # <<>>]_vars

\* an unlink succeeded after the contents were assigned, and the getters answer as
\* they did when the global config was created
C17_Witness ==
    /\ result[1].op = "unlink" /\ result[1].status = "ok"
    /\ contents[1] # Undefined
    /\ getPath(1) = <<"home", "user", ".sfdx", "config.json">>
    /\ getIsGlobal(1) = JBool(TRUE)

WriteFails(i) ==
    /\ Completes(i, {"write_mkdirp", "write_file"}) /\ result'[i].status = "throw"
    /\ ~IsNil(call[i].arg)

\* C18 (as stated): when write(X) with a non-nil X fails, at the directory creation or
\* at the file overwrite, the file at the path is as it was, the contents of the
\* instance are X, and getContents() returns X.
C18_FailedWriteKeepsX ==
    [][\A i \in Actors :
          WriteFails(i) =>
             /\ FileAt(fs', path[i]) = FileAt(fs, path[i])
             /\ contents'[i] = call[i].arg
             /\ getContents(contents'[i]) = call[i].arg]_vars

\* C18 (amended): when write(X) with a non-nil X fails, at the directory creation or at
\* the file overwrite, no step of that write has changed the file at the path, and the
\* contents of the instance are X all the same: getContents() returns X for a truthy
\* X, and the empty mapping for X one of false, 0 and "".
C18_FailedWriteKeepsTruthyX ==
    [][\A i \in Actors :
          /\ pc[i] = "write_mkdirp" => FileAt(fs', path[i]) = FileAt(fs, path[i])
          /\ WriteFails(i) =>
                /\ FileAt(fs', path[i]) = FileAt(fs, path[i])
                /\ result'[i] = Threw(call[i], result'[i].err)
                /\ contents'[i] = call[i].arg
                /\ getContents(contents'[i]) =
                      IF Truthy(call[i].arg) THEN call[i].arg ELSE EmptyObject]_vars

\* a write of [0] threw on a file closed to writing: the contents are [0], the file
\* holds another text
C18_Witness ==
    /\ result[1].op = "write" /\ result[1].status = "throw"
    /\ result[1].arg = JArr(<<LNum(0)>>)
    /\ pc[1] = "idle" /\ contents[1] = JArr(<<LNum(0)>>)
    /\ getContents(contents[1]) = JArr(<<LNum(0)>>)
    /\ FileAt(fs, path[1]).kind = "file" /\ ~FileAt(fs, path[1]).w
    /\ FileAt(fs, path[1]).text # Stringify(JArr(<<LNum(0)>>))

\* C19: unlink() never changes the contents, at any of its steps.  After write(X) with
\* an object X, a successful unlink() leaves the contents X, getContents() returning X,
\* and leaves no file at the path; a write() without argument then keeps the contents,
\* and where no file is at the path and its directory exists it succeeds, returns the
\* contents and creates the file, readable, with their serialization; exists() after
\* such a write returns true.
C19_UnlinkKeepsContents ==
    [][\A i \in Actors :
          /\ (pc[i] \in {"unlink_exists", "unlink_io"} \/ pc'[i] = "unlink_exists")
                => contents'[i] = contents[i]
          /\ (/\ Completes(i, {"unlink_io"}) /\ result'[i].status = "ok"
              /\ result[i].op = "write" /\ result[i].status = "ok"
              /\ result[i].arg.t = "object" /\ contents[i] = result[i].arg)
                => /\ getContents(contents'[i]) = result[i].arg
                   /\ FileAt(fs', path[i]).kind = "absent"
                   /\ pathDirname(path[i]) \in fs'.dirs
          /\ (pc[i] = "idle" /\ pc'[i] = "write_mkdirp" /\ IsNil(call'[i].arg))
                => contents'[i] = contents[i]
          /\ (/\ pc[i] \in {"write_mkdirp", "write_file"} /\ IsNil(call[i].arg)
              /\ FileAt(fs, path[i]).kind = "absent" /\ pathDirname(path[i]) \in fs.dirs)
                => IF pc[i] = "write_mkdirp"
                   THEN pc'[i] = "write_file" /\ fs' = fs
                   ELSE /\ result'[i] =
                              Returned(call[i], getContents(contents[i]), FALSE, <<>>)
                        /\ FileAt(fs', path[i]) =
                              File(Stringify(getContents(contents[i])), TRUE, TRUE)
                        /\ contents'[i] = contents[i]
          /\ (/\ Completes(i, {"access_io"}) /\ call[i].op = "exists"
              /\ result[i].op = "write" /\ result[i].status = "ok"
              /\ FileAt(fs, path[i]) = File(Stringify(result[i].ret), TRUE, TRUE))
                => result'[i] = Returned(call[i], Undefined, TRUE, <<>>)]_vars

\* after write({a: 1}) an unlink succeeded, and write() without argument is under way:
\* the contents are still {a: 1} and no file is at the path
C19_Witness ==
    /\ pc[1] = "write_mkdirp" /\ IsNil(call[1].arg)
    /\ result[1].op = "unlink" /\ result[1].status = "ok"
    /\ contents[1] = JObj(<<"a">>, <<LNum(1)>>)
    /\ getContents(contents[1]) = JObj(<<"a">>, <<LNum(1)>>)
    /\ FileAt(fs, path[1]).kind = "absent"
    /\ pathWasEmpty

\* C20: a create whose options carry a non-empty rootFolder never consults the
\* project-root locator, never waits for it and never throws InvalidType, whatever
\* isGlobal is (true, false, omitted, or another value that is not a boolean); with a
\* filename it returns a Config whose path is join(rootFolder, STATE_FOLDER if isGlobal
\* or isState is true, filePath if given, filename), and without one it throws
\* InvalidParameter.
C20_RootFolderOverrides ==
    \A i \in Actors :
       (call[i].op = "create" /\ OptTruthy(options[i].rootFolder)) =>
          /\ ~consulted[i]
          /\ pc[i] = "idle"
          /\ result[i].status = "throw" =>
                result[i].err = "InvalidParameter" /\ ~OptTruthy(options[i].filename)
          /\ OptTruthy(options[i].filename) =>
                /\ created[i] /\ result[i].status = "ok"
                /\ path[i] = pathJoin(<<options[i].rootFolder.segs,
                                        IF InStateFolder(options[i])
                                        THEN <<STATE_FOLDER>> ELSE <<>>,
                                        IF options[i].filePath.given
                                        THEN options[i].filePath.segs ELSE <<>>,
                                        options[i].filename.segs>>)
                /\ result[i].path = path[i]

\* a Config created under the caller's root folder with isGlobal omitted
C20_Witness ==
    /\ CreateDone(1) /\ created[1]
    /\ options[1].rootFolder = Some(<<"tmp", "root">>)
    /\ options[1].isGlobal = Undefined /\ options[1].isState = Undefined
    /\ ~consulted[1]
    /\ path[1] = <<"tmp", "root", "config.json">>

====
